---- MODULE Spec2Model ----
(***************************************************************************)
(* Request pipeline of the PDF conversion service (src/app.py): the rate   *)
(* limiter's before-request hook, the bearer check of require_api_key, the *)
(* upload validation of pdf_to_html / pdf_to_text, and the save / extract  *)
(* / remove section on the shared upload directory.                        *)
(*                                                                         *)
(* Strings the code takes apart (filenames, paths) are sequences of        *)
(* one-character strings; a multi-page text is the sequence of its page    *)
(* texts, so that string concatenation is sequence concatenation.          *)
(* One client identity (one value of get_remote_address) and one window of *)
(* the limiter's counters are modelled.                                    *)
(***************************************************************************)
EXTENDS Naturals, Sequences, FiniteSets, TLC

\* ------------------------------------------------------------- bounds
\* request slots that may be in flight at once
NSlots == 2
\* requests received in one run of the concurrent specification
MaxArrivals == 2
\* requests the limiter still receives after a route's ceiling is reached
MaxOver == 1

\* ------------------------------------------------- program constants
HtmlPerMinute == 10
TextPerMinute == 50
GlobalPerHour == 50
GlobalPerDay == 100
MAX_CONTENT_LENGTH == 16 * 1024 * 1024
API_KEY == "default-key"
UPLOAD_FOLDER == <<".", "/", "u", "p", "l", "o", "a", "d", "s">>

Routes == {"/pdf-to-html", "/pdf-to-text"}

\* ------------------------------------------------------------ filenames
Sep == "/"
Space == " "
Lowercase == {"a", "b", "n", "t", "x", "p", "d", "f"}
Uppercase == {"P", "D", "F"}
\* the characters _filename_ascii_strip_re keeps: [A-Za-z0-9_.-]
SafeChars == Lowercase \cup Uppercase \cup {"_", ".", "-"}

\* filename.replace(os.sep, " ")
ReplaceSep(s) == [i \in 1..Len(s) |-> IF s[i] = Sep THEN Space ELSE s[i]]

\* "_".join(filename.split()): runs of whitespace between two words become
\* one "_", leading and trailing whitespace goes
RECURSIVE JoinWordsFrom(_, _)
JoinWordsFrom(s, i) ==
    IF i > Len(s) THEN <<>>
    ELSE IF s[i] # Space THEN <<s[i]>> \o JoinWordsFrom(s, i + 1)
    ELSE IF /\ i > 1
            /\ s[i - 1] # Space
            /\ \E j \in (i + 1)..Len(s) : s[j] # Space
         THEN <<"_">> \o JoinWordsFrom(s, i + 1)
    ELSE JoinWordsFrom(s, i + 1)

JoinWords(s) == JoinWordsFrom(s, 1)

\* _filename_ascii_strip_re.sub("", ...)
StripUnsafe(s) == SelectSeq(s, LAMBDA c : c \in SafeChars)

\* str.strip("._")
RECURSIVE StripLeft(_)
StripLeft(s) ==
    IF s # <<>> /\ Head(s) \in {".", "_"} THEN StripLeft(Tail(s)) ELSE s

RECURSIVE StripRight(_)
StripRight(s) ==
    IF s # <<>> /\ s[Len(s)] \in {".", "_"}
    THEN StripRight(SubSeq(s, 1, Len(s) - 1))
    ELSE s

StripDotsUnderscores(s) == StripRight(StripLeft(s))

\* the declared filename taken as it is
DeclaredName(s) == s

\* werkzeug.utils.secure_filename
secure_filename(s) == StripDotsUnderscores(StripUnsafe(JoinWords(ReplaceSep(s))))

LowerChar(c) ==
    CASE c = "P" -> "p"
      [] c = "D" -> "d"
      [] c = "F" -> "f"
      [] OTHER -> c

\* str.lower()
lower(s) == [i \in 1..Len(s) |-> LowerChar(s[i])]

\* str.endswith(suffix)
endswith(s, suffix) ==
    /\ Len(s) >= Len(suffix)
    /\ SubSeq(s, Len(s) - Len(suffix) + 1, Len(s)) = suffix

DotPdf == <<".", "p", "d", "f">>

\* the check of lines 96 and 149
IsPdfName(filename) == endswith(lower(filename), DotPdf)

\* os.path.join(app.config['UPLOAD_FOLDER'], filename)
PathJoin(dir, name) ==
    IF name # <<>> /\ Head(name) = Sep THEN name ELSE dir \o <<Sep>> \o name

\* the filenames clients declare
FnEmpty == <<>>
FnA == <<"a", ".", "p", "d", "f">>
FnTraversal == <<".", ".", "/", "a", ".", "p", "d", "f">>
FnUpper == <<"b", ".", "P", "D", "F">>
FnTxt == <<"n", ".", "t", "x", "t">>
FnDotPdf == <<".", "p", "d", "f">>

Filenames == {FnEmpty, FnA, FnTraversal, FnUpper, FnTxt, FnDotPdf}

\* ------------------------------------------------------------ requests
NoHeader == <<>>
\* f"Bearer {API_KEY}"
BearerOf(key) == <<"Bearer ", key>>
Headers == {NoHeader, BearerOf(API_KEY), BearerOf("wrong-key")}

Lengths == {MAX_CONTENT_LENGTH, MAX_CONTENT_LENGTH + 1}

\* what an uploaded file holds: bytes fitz cannot open, a document without
\* pages, a one-page and a two-page document
Contents == {"bad", "doc0", "docA", "docB"}
\* a file opened for writing and not yet written
Truncated == "truncated"

NoUpload == [present |-> FALSE, filename |-> <<>>, content |-> "bad"]
FileUpload(name, content) == [present |-> TRUE, filename |-> name, content |-> content]

\* request.files of the requests that reach the checks of the upload; two
\* declared names share a path of the upload directory, a third has its own
Uploads ==
    {NoUpload, FileUpload(FnEmpty, "docA"), FileUpload(FnTxt, "docA"),
     FileUpload(FnDotPdf, "docA"), FileUpload(FnUpper, "docA"),
     FileUpload(FnTraversal, "docB"), FileUpload(FnA, "bad"), FileUpload(FnA, "doc0")}

\* request.files of the requests of the limiter's specification
LimiterUploads ==
    {NoUpload, FileUpload(FnTxt, "docA"), FileUpload(FnA, "docA"), FileUpload(FnA, "bad")}

\* the requests of the concurrent specification: every upload under the
\* header and the length with which the code reads it, and without an
\* upload every header and every length
Requests ==
    [route : Routes, header : {BearerOf(API_KEY)}, length : {MAX_CONTENT_LENGTH},
     upload : Uploads]
    \cup [route : Routes, header : {BearerOf(API_KEY)}, length : Lengths,
          upload : {NoUpload}]
    \cup [route : Routes, header : Headers, length : {MAX_CONTENT_LENGTH},
          upload : {NoUpload}]

\* the requests of the limiter's specification
LimiterRequests ==
    [route : Routes, header : Headers, length : Lengths, upload : LimiterUploads]

Pages(content) ==
    CASE content = "docA" -> << <<"A">> >>
      [] content = "docB" -> << <<"B">>, <<"C">> >>
      [] OTHER -> <<>>

\* fitz.open succeeds on it
Parseable(content) == content \in {"doc0", "docA", "docB"}

\* no file at the path
Absent == "absent"

\* the paths of the upload directory the requests can name
Paths ==
    {PathJoin(UPLOAD_FOLDER, secure_filename(n)) :
        n \in {m \in Filenames : IsPdfName(secure_filename(m))}}

\* ------------------------------------------------------------ responses
NoData == [keys |-> {}, filename |-> <<>>, payload |-> <<>>]

NoBody ==
    [mimetype |-> "", keys |-> {}, status |-> "", message |-> <<>>, code |-> 0,
     error |-> "", details |-> <<>>, data |-> NoData]

\* jsonify({"error": text})
ErrorOnly(text) ==
    [NoBody EXCEPT !.mimetype = "application/json", !.keys = {"error"}, !.error = text]

\* jsonify({"status": "error", "message": message, "code": code})
ErrorBody(message, code) ==
    [NoBody EXCEPT !.mimetype = "application/json",
                   !.keys = {"status", "message", "code"},
                   !.status = "error", !.message = message, !.code = code]

\* jsonify({"status": "error", "message": ..., "details": str(e), "code": 500})
UnexpectedBody(e) ==
    [NoBody EXCEPT !.mimetype = "application/json",
                   !.keys = {"status", "message", "details", "code"},
                   !.status = "error",
                   !.message = <<"An unexpected error occurred.">>,
                   !.details = e.text, !.code = 500]

\* jsonify({"status": "success", "data": {"filename": ..., field: ...}, "message": ...})
SuccessBody(filename, field, payload, message) ==
    [NoBody EXCEPT !.mimetype = "application/json",
                   !.keys = {"status", "data", "message"},
                   !.status = "success", !.message = message,
                   !.data = [keys |-> {"filename", field}, filename |-> filename,
                             payload |-> payload]]

\* the limiter's RateLimitExceeded, for which the application registers no handler
RateLimitBody == [NoBody EXCEPT !.mimetype = "text/html"]

\* ------------------------------------------------------------ state
VARIABLES
    hits,      \* the limiter's counter of each route's limit, for the client
    admitted,  \* requests of the client the limiter has let through
    req,       \* the request each slot handles, its position and its response
    disk       \* the files of the upload directory: path -> content

vars == <<hits, admitted, req, disk>>

Slots == 1..NSlots

IdleReq ==
    [pc |-> "idle", route |-> "/pdf-to-text", header |-> NoHeader,
     length |-> MAX_CONTENT_LENGTH, upload |-> NoUpload,
     filename |-> <<>>, filepath |-> <<>>, out |-> <<>>,
     created |-> FALSE, called |-> FALSE, removed |-> FALSE, failed |-> "",
     stages |-> <<>>, http |-> 0, body |-> NoBody]

Init ==
    /\ hits = [rt \in Routes |-> 0]
    /\ admitted = 0
    /\ req = [r \in Slots |-> IdleReq]
    /\ disk = [p \in Paths |-> Absent]

\* the limit the decorator of the route's view function sets
RouteLimit(route) == IF route = "/pdf-to-html" THEN HtmlPerMinute ELSE TextPerMinute

\* the limiter's hit: the counter is incremented and compared with the limit
WithinLimit(count, limit) == count <= limit

\* line 35
Authorized(header) == ~(header = NoHeader \/ header # BearerOf(API_KEY))

\* no limit on the size of the body is configured
TooLargeUnchecked(length) == FALSE

\* the request body is larger than MAX_CONTENT_LENGTH allows
TooLarge(length) == length > MAX_CONTENT_LENGTH

\* os.path.exists of a path of the upload directory
Exists(path) == disk[path] # Absent

Arrivals == hits["/pdf-to-html"] + hits["/pdf-to-text"]

\* the request has entered a stage: the stages it has entered, in order
Enter(cur, stage) == [cur EXCEPT !.stages = cur.stages \o <<stage>>]

Finish(r, cur, http, body) ==
    req' = [req EXCEPT ![r] = [cur EXCEPT !.pc = "done", !.http = http, !.body = body]]

\* ------------------------------------------------------------ the engine
Raised(type, text) == [raised |-> TRUE, type |-> type, text |-> text, value |-> <<>>]
Returned(value) == [raised |-> FALSE, type |-> "", text |-> <<>>, value |-> value]

\* fitz.open(filepath) on the file now at the path
FitzOpen(path) ==
    IF ~Exists(path)
    THEN Raised("FileNotFoundError", <<"no such file: '">> \o path \o <<"'">>)
    ELSE IF ~Parseable(disk[path])
    THEN Raised("FileDataError", <<"Failed to open file '">> \o path \o <<"'">>)
    ELSE Returned(Pages(disk[path]))

\* text_content += page.get_text("text"), page by page
RECURSIVE ConcatPages(_)
ConcatPages(pages) ==
    IF pages = <<>> THEN <<>> ELSE Head(pages) \o ConcatPages(Tail(pages))

\* extract_text_from_pdf: every exception becomes a RuntimeError
extract_text_from_pdf(path) ==
    LET doc == FitzOpen(path) IN
    IF doc.raised
    THEN Raised("RuntimeError", <<"Error extracting text from PDF: ">> \o doc.text)
    ELSE Returned(ConcatPages(doc.value))

\* extract_html_from_pdf: page.get_text("blocks") is a list, and adding a
\* list to html_content, a str, raises TypeError on the first page
extract_html_from_pdf(path) ==
    LET doc == FitzOpen(path) IN
    IF doc.raised
    THEN Raised("RuntimeError", <<"Error extracting HTML from PDF: ">> \o doc.text)
    ELSE IF doc.value # <<>>
    THEN Raised("RuntimeError",
                <<"Error extracting HTML from PDF: ",
                  "can only concatenate str (not \"list\") to str">>)
    ELSE Returned(<<>>)

EngineCall(route, path) ==
    IF route = "/pdf-to-html" THEN extract_html_from_pdf(path)
    ELSE extract_text_from_pdf(path)

\* ------------------------------------------------------------ the handlers
Rejected(message) == [ok |-> FALSE, message |-> message]
Accepted == [ok |-> TRUE, message |-> <<>>]

\* the checks without the one of the empty filename
ValidateUploadNoEmptyCheck(upload) ==
    IF ~upload.present THEN Rejected(<<"No file provided">>)
    ELSE IF ~IsPdfName(secure_filename(upload.filename))
    THEN Rejected(<<"Invalid file type. Only PDF files are allowed.">>)
    ELSE Accepted

\* the checks of lines 86 to 98 and 139 to 151
ValidateUpload(upload) ==
    IF ~upload.present THEN Rejected(<<"No file provided">>)
    ELSE IF upload.filename = <<>> THEN Rejected(<<"No file selected">>)
    ELSE IF ~IsPdfName(secure_filename(upload.filename))
    THEN Rejected(<<"Invalid file type. Only PDF files are allowed.">>)
    ELSE Accepted

\* the except branches in the other order: except Exception comes first
HandleExceptionGeneralFirst(e) == [http |-> 500, body |-> UnexpectedBody(e)]

\* the except branches of lines 118 to 132 and 171 to 185
HandleException(e) ==
    IF e.type = "RuntimeError"
    THEN [http |-> 400, body |-> ErrorBody(e.text, 400)]
    ELSE [http |-> 500, body |-> UnexpectedBody(e)]

\* the request ends in an except branch, the exception raised at a stage
Fail(r, cur, stage, e) ==
    req' = [req EXCEPT ![r] =
               [cur EXCEPT !.pc = "done", !.failed = stage,
                           !.http = HandleException(e).http,
                           !.body = HandleException(e).body]]

\* A request arrives: the limiter's before-request hook, then the view
\* function: require_api_key's check, the parsing of the body, the checks of
\* the upload.  slot r is free.
Receive(r, q) ==
    LET route == q.route
        header == q.header
        length == q.length
        upload == q.upload
        count == hits[route] + 1
        filename == secure_filename(upload.filename)
        cur == [IdleReq EXCEPT !.route = route, !.header = header,
                               !.length = length, !.upload = upload]
        limited == Enter(cur, "RateLimit")
        checked == Enter(limited, "Auth")
        parsed == Enter(checked, "Validate")
    IN
    /\ req[r].pc \in {"idle", "done"}
    /\ hits' = [hits EXCEPT ![route] = count]
    /\ UNCHANGED disk
    /\ IF ~WithinLimit(count, RouteLimit(route))
       THEN /\ UNCHANGED admitted
            /\ Finish(r, limited, 429, RateLimitBody)
       ELSE /\ admitted' = admitted + 1
            /\ IF ~Authorized(header)
               THEN Finish(r, checked, 401, ErrorOnly("Unauthorized"))
               ELSE IF TooLarge(length)
               THEN Finish(r, parsed, 413, ErrorOnly("File too large"))
               ELSE IF ~ValidateUpload(upload).ok
               THEN Finish(r, parsed, 400, ErrorBody(ValidateUpload(upload).message, 400))
               ELSE req' = [req EXCEPT ![r] =
                               [parsed EXCEPT !.pc = "save", !.filename = filename,
                                           !.filepath = PathJoin(UPLOAD_FOLDER, filename)]]

\* file.save(filepath) opens the file for writing: it now exists, empty
SaveOpen(r) ==
    /\ req[r].pc = "save"
    /\ disk' = [disk EXCEPT ![req[r].filepath] = Truncated]
    /\ req' = [req EXCEPT ![r] =
                   [Enter(req[r], "Store") EXCEPT !.pc = "write", !.created = TRUE]]
    /\ UNCHANGED <<hits, admitted>>

\* file.save(filepath) raises (the directory is gone, the disk is full)
SaveFails(r) ==
    /\ req[r].pc = "save"
    /\ Fail(r, Enter(req[r], "Store"), "save",
            Raised("OSError",
                   <<"[Errno 28] No space left on device: '">> \o req[r].filepath \o <<"'">>))
    /\ UNCHANGED <<hits, admitted, disk>>

\* file.save(filepath) writes the upload's bytes; a file unlinked since it
\* was opened stays unlinked
SaveWrite(r) ==
    /\ req[r].pc = "write"
    /\ disk' = IF Exists(req[r].filepath)
               THEN [disk EXCEPT ![req[r].filepath] = req[r].upload.content]
               ELSE disk
    /\ req' = [req EXCEPT ![r].pc = "extract"]
    /\ UNCHANGED <<hits, admitted>>

\* the engine call of lines 106 and 159, and the except RuntimeError branch
Extract(r) ==
    LET res == EngineCall(req[r].route, req[r].filepath)
        cur == [Enter(req[r], "Extract") EXCEPT !.called = TRUE]
    IN
    /\ req[r].pc = "extract"
    /\ IF res.raised
       THEN Fail(r, cur, "extract", res)
       ELSE req' = [req EXCEPT ![r] = [cur EXCEPT !.pc = "remove", !.out = res.value]]
    /\ UNCHANGED <<hits, admitted, disk>>

\* the delete waits until the file is there
RemoveWaits(r) ==
    LET cur == Enter(req[r], "Cleanup")
        field == IF cur.route = "/pdf-to-html" THEN "html" ELSE "text"
        message == IF cur.route = "/pdf-to-html"
                   THEN <<"HTML successfully extracted.">>
                   ELSE <<"Text successfully extracted.">>
    IN
    /\ cur.pc = "remove"
    /\ Exists(cur.filepath)
    /\ disk' = [disk EXCEPT ![cur.filepath] = Absent]
    /\ Finish(r, [cur EXCEPT !.removed = TRUE], 200,
              SuccessBody(cur.filename, field, cur.out, message))
    /\ UNCHANGED <<hits, admitted>>

\* os.remove(filepath) and the success response, or the except Exception
\* branch when the file is no longer there
Remove(r) ==
    LET cur == Enter(req[r], "Cleanup")
        field == IF cur.route = "/pdf-to-html" THEN "html" ELSE "text"
        message == IF cur.route = "/pdf-to-html"
                   THEN <<"HTML successfully extracted.">>
                   ELSE <<"Text successfully extracted.">>
    IN
    /\ cur.pc = "remove"
    /\ IF Exists(cur.filepath)
       THEN /\ disk' = [disk EXCEPT ![cur.filepath] = Absent]
            /\ Finish(r, [cur EXCEPT !.removed = TRUE], 200,
                      SuccessBody(cur.filename, field, cur.out, message))
       ELSE /\ UNCHANGED disk
            /\ Fail(r, cur, "remove",
                    Raised("FileNotFoundError",
                           <<"[Errno 2] No such file or directory: '">>
                               \o cur.filepath \o <<"'">>))
    /\ UNCHANGED <<hits, admitted>>

\* ------------------------------------------------------ specifications
\* concurrent requests, MaxArrivals of them
Next ==
    \E r \in Slots :
        \/ \E q \in Requests :
               /\ Arrivals < MaxArrivals
               /\ Receive(r, q)
        \/ SaveOpen(r)
        \/ SaveFails(r)
        \/ SaveWrite(r)
        \/ Extract(r)
        \/ Remove(r)

Spec == Init /\ [][Next]_vars

\* one request after the other, until each route's limit is passed
NextLimiter ==
    \/ \E q \in LimiterRequests :
           /\ hits[q.route] < RouteLimit(q.route) + MaxOver
           /\ Receive(1, q)
    \/ SaveOpen(1)
    \/ SaveFails(1)
    \/ SaveWrite(1)
    \/ Extract(1)
    \/ Remove(1)

SpecLimiter == Init /\ [][NextLimiter]_vars

\* ---------------------------------------------------------------- claims
Answered(r) == req[r].pc = "done"
InFlight(r) == req[r].pc \in {"save", "write", "extract", "remove"}
ValidBearer(r) == req[r].header = <<"Bearer ", API_KEY>>
Oversized(r) == req[r].length > MAX_CONTENT_LENGTH
SanitizedName(r) == secure_filename(req[r].upload.filename)
NoWriteNoExtraction(r) == ~req[r].created /\ ~req[r].called

\* C1: a request that has created its file in the upload directory has
\* removed it by the time it has answered, on every exit path.
C1_FileRemovedOnEveryExit ==
    \A r \in Slots : Answered(r) /\ req[r].created => req[r].removed

\* C2: no two requests in flight name the same path of the upload directory.
C2_PathsAreRequestUnique ==
    \A r1, r2 \in Slots :
        r1 # r2 /\ InFlight(r1) /\ InFlight(r2) => req[r1].filepath # req[r2].filepath

\* C3: a request without the valid bearer header is answered 401, whatever
\* the limiter's counters, and writes no file and runs no extraction.
C3_UnauthorizedAlways401 ==
    \A r \in Slots :
        Answered(r) /\ ~ValidBearer(r) => req[r].http = 401 /\ NoWriteNoExtraction(r)

\* the request a slot has received
RequestOf(cur) ==
    [route |-> cur.route, header |-> cur.header, length |-> cur.length,
     upload |-> cur.upload]

\* the step is the arrival, in slot r, of the request the slot then holds
Arrives(r) == Receive(r, RequestOf(req'[r]))

\* C4: the arrival of a request without the valid bearer header leaves
\* every counter of the limiter as it was.
C4_UnauthorizedLeavesCounters ==
    [][\A r \in Slots :
           Arrives(r) /\ req'[r].header # <<"Bearer ", API_KEY>> => hits' = hits]_vars

\* the three uploads the checks reject
NoFileField(r) == ~req[r].upload.present
EmptyFilename(r) == req[r].upload.present /\ req[r].upload.filename = <<>>
NotPdfName(r) ==
    /\ req[r].upload.present
    /\ req[r].upload.filename # <<>>
    /\ ~endswith(lower(SanitizedName(r)), <<".", "p", "d", "f">>)

RejectionMessage(r) ==
    IF NoFileField(r) THEN <<"No file provided">>
    ELSE IF EmptyFilename(r) THEN <<"No file selected">>
    ELSE <<"Invalid file type. Only PDF files are allowed.">>

RejectedUpload(r) == NoFileField(r) \/ EmptyFilename(r) \/ NotPdfName(r)

Is400WithMessage(r) ==
    /\ Answered(r)
    /\ req[r].http = 400
    /\ req[r].body.status = "error"
    /\ req[r].body.code = 400
    /\ req[r].body.message = RejectionMessage(r)
    /\ NoWriteNoExtraction(r)

\* C5 as stated: an authenticated, admitted request without a file field,
\* with an empty filename or with a sanitized name that is no .pdf name is
\* answered 400 with the message of its case, and writes and extracts nothing.
C5_RejectedUploadAlways400 ==
    \A r \in Slots :
        /\ req[r].pc # "idle"
        /\ ValidBearer(r)
        /\ req[r].http # 429
        /\ RejectedUpload(r)
        => Is400WithMessage(r)

\* C5 as amended: the same, for a request whose body is no larger than the
\* maximum content length.
C5_RejectedUploadWithinSize400 ==
    \A r \in Slots :
        /\ req[r].pc # "idle"
        /\ ValidBearer(r)
        /\ req[r].http # 429
        /\ ~Oversized(r)
        /\ RejectedUpload(r)
        => Is400WithMessage(r)

\* C5's case: one request rejected for its sanitized name, another for its
\* missing file field or its empty filename.
C5_Witness ==
    \E r1, r2 \in Slots :
        /\ NotPdfName(r1) /\ endswith(req[r1].upload.filename, <<".", "p", "d", "f">>)
        /\ ValidBearer(r1) /\ ~Oversized(r1) /\ Is400WithMessage(r1)
        /\ EmptyFilename(r2)
        /\ ValidBearer(r2) /\ ~Oversized(r2) /\ Is400WithMessage(r2)

\* C6: a request that arrives when a ceiling that applies to its route (the
\* route's per minute, the global per hour and per day) is used up is
\* answered 429 and goes no further, and a request within all of them is
\* not answered 429.
C6_OverCeilingIff429 ==
    [][\A r \in Slots :
           Arrives(r) =>
               LET perMinute == IF req'[r].route = "/pdf-to-html"
                                THEN HtmlPerMinute ELSE TextPerMinute
                   usedUp == \/ hits[req'[r].route] >= perMinute
                             \/ admitted >= GlobalPerHour
                             \/ admitted >= GlobalPerDay
               IN  /\ usedUp => req'[r].pc = "done" /\ req'[r].http = 429
                   /\ ~usedUp => req'[r].http # 429]_vars

\* C7: the requests admitted on the two routes stay within the global
\* ceilings, 50 per hour and 100 per day.
C7_GlobalCeilingsBoundAdmitted ==
    admitted <= GlobalPerHour /\ admitted <= GlobalPerDay

\* C8 as stated: a request whose body exceeds the maximum content length is
\* answered 413 whatever its header and the counters, and runs no extraction.
C8_OversizedAlways413 ==
    \A r \in Slots :
        req[r].pc # "idle" /\ Oversized(r)
        => Answered(r) /\ req[r].http = 413 /\ NoWriteNoExtraction(r)

\* C8 as amended: a request whose body exceeds the maximum content length
\* writes and extracts nothing, and is answered 413 when it carries the
\* valid bearer header and the limiter admits it.
C8_OversizedAuthorized413 ==
    \A r \in Slots :
        req[r].pc # "idle" /\ Oversized(r)
        => /\ Answered(r)
           /\ NoWriteNoExtraction(r)
           /\ ValidBearer(r) /\ req[r].http # 429 => req[r].http = 413

\* C8's case: an oversized request with the valid header, answered 413 when
\* its route's counter is at the ceiling.
C8_Witness ==
    \E r \in Slots :
        /\ Answered(r) /\ Oversized(r) /\ ValidBearer(r)
        /\ req[r].http = 413
        /\ hits[req[r].route] = RouteLimit(req[r].route)

\* C9: a 500 response carries no text of the exception caught.
C9_NoExceptionTextIn500 ==
    \A r \in Slots :
        Answered(r) /\ req[r].http = 500
        => "details" \notin req[r].body.keys /\ req[r].body.details = <<>>

\* C10: a failure of the engine is answered 400 with status "error" and
\* code 400, a failure of the save or of the delete is answered 500, and a
\* request that failed in the section has answered.
C10_SectionFailuresAnswered ==
    \A r \in Slots :
        /\ req[r].failed # "" => Answered(r) /\ req[r].body.status = "error"
        /\ req[r].failed = "extract"
           => req[r].http = 400 /\ req[r].body.code = 400
        /\ req[r].failed \in {"save", "remove"}
           => req[r].http = 500 /\ req[r].body.code = 500

\* C10's case: one request answered after its engine call failed, another
\* after its save failed.
C10_Witness ==
    \E r1, r2 \in Slots :
        /\ req[r1].failed = "extract" /\ req[r1].http = 400
        /\ req[r2].failed = "save" /\ req[r2].http = 500

\* the order of the stages the specification gives
PipelineOrder == <<"Auth", "RateLimit", "Validate", "Store", "Extract", "Cleanup">>

IsPrefix(s, t) == Len(s) <= Len(t) /\ SubSeq(t, 1, Len(s)) = s

\* C11: the stages a request has entered are, in order, the first stages of
\* Auth, RateLimit, Validate, Store, Extract, Cleanup, each once, and a
\* request answered 200 has entered all six.
C11_StagesInPipelineOrder ==
    \A r \in Slots :
        /\ IsPrefix(req[r].stages, PipelineOrder)
        /\ req[r].http = 200 => req[r].stages = PipelineOrder

\* the request has passed the limiter, require_api_key and the checks of
\* the upload
Validated(r) ==
    /\ req[r].pc # "idle"
    /\ ValidBearer(r)
    /\ req[r].http # 429
    /\ ~Oversized(r)
    /\ ~RejectedUpload(r)

\* the engine has been called for the request and has returned
EngineSucceeded(r) == req[r].called /\ req[r].failed # "extract"

PayloadField(r) == IF req[r].route = "/pdf-to-html" THEN "html" ELSE "text"

\* C12: an authenticated, admitted, validated request for which the engine
\* has returned is answered 200 with status "success", the filename of its
\* upload as data.filename, and the string the engine returned as data.text
\* on /pdf-to-text and as data.html on /pdf-to-html.
C12_SuccessEnvelope ==
    \A r \in Slots :
        Answered(r) /\ Validated(r) /\ EngineSucceeded(r)
        => /\ req[r].http = 200
           /\ req[r].body.status = "success"
           /\ req[r].body.data.filename = req[r].upload.filename
           /\ req[r].body.data.keys = {"filename", PayloadField(r)}
           /\ req[r].body.data.payload = req[r].out

\* the engine returns on the bytes of the request's upload, when no other
\* request touches the file
SucceedsAlone(r) ==
    /\ req[r].upload.content \in {"doc0", "docA", "docB"}
    /\ req[r].route = "/pdf-to-html" => req[r].upload.content = "doc0"

\* two slots have answered the same submission, and the save has failed
\* for neither
SubmittedTwice(r1, r2) ==
    /\ r1 # r2
    /\ Answered(r1) /\ Validated(r1) /\ SucceedsAlone(r1) /\ req[r1].failed # "save"
    /\ Answered(r2) /\ Validated(r2) /\ req[r2].failed # "save"
    /\ req[r1].route = req[r2].route
    /\ req[r1].upload = req[r2].upload

\* C13: the same valid PDF submitted twice to the same route, the engine
\* succeeding on it, is answered 200 both times with the same payload, and
\* no file of either request is left in the upload directory.
C13_SameUploadTwice ==
    \A r1, r2 \in Slots :
        SubmittedTwice(r1, r2)
        => /\ req[r1].http = 200 /\ req[r2].http = 200
           /\ req[r1].body.data.payload = req[r2].body.data.payload
           /\ disk[req[r1].filepath] = "absent"

\* the characters of a sequence
Chars(s) == {s[i] : i \in 1..Len(s)}

\* the path names an entry of the upload directory itself: ./uploads, one
\* separator, and one component that is neither "." nor ".."
DirectlyInsideUploads(path) ==
    LET dir == <<".", "/", "u", "p", "l", "o", "a", "d", "s", "/">>
        base == SubSeq(path, Len(dir) + 1, Len(path))
    IN  /\ Len(path) > Len(dir)
        /\ SubSeq(path, 1, Len(dir)) = dir
        /\ "/" \notin Chars(base)
        /\ base \notin {<<".">>, <<".", ".">>}

\* the request has been given a path of the disk or has touched the disk
UsesDisk(r) == req[r].filepath # <<>> \/ req[r].created \/ req[r].called

\* C14: the path a request writes, reads and deletes is ./uploads/ followed
\* by the sanitized filename and names an entry of the upload directory
\* itself, whatever filename the upload declares; a request whose sanitized
\* filename does not end in .pdf has answered without a path and without a
\* write.
C14_PathsStayInsideUploads ==
    \A r \in Slots :
        /\ UsesDisk(r)
           => /\ req[r].filepath
                    = <<".", "/", "u", "p", "l", "o", "a", "d", "s", "/">> \o SanitizedName(r)
              /\ DirectlyInsideUploads(req[r].filepath)
        /\ req[r].pc # "idle" /\ NotPdfName(r)
           => Answered(r) /\ req[r].http # 200 /\ ~UsesDisk(r)

\* C14's case: an upload declared as ../a.pdf has been written to
\* ./uploads/a.pdf, and an upload declared as .pdf has been rejected
\* without a write.
C14_Witness ==
    \E r1, r2 \in Slots :
        /\ req[r1].upload.filename = <<".", ".", "/", "a", ".", "p", "d", "f">>
        /\ req[r1].created
        /\ req[r1].filepath
               = <<".", "/", "u", "p", "l", "o", "a", "d", "s", "/", "a", ".", "p", "d", "f">>
        /\ disk[req[r1].filepath] = "docB"
        /\ req[r2].upload.filename = <<".", "p", "d", "f">>
        /\ req[r2].http = 400 /\ ~req[r2].created

\* the body is a JSON object {status: "error", message, code} with code the
\* HTTP status, and at most details besides
IsErrorEnvelope(body, http) ==
    /\ body.mimetype = "application/json"
    /\ {"status", "message", "code"} \subseteq body.keys
    /\ body.keys \subseteq {"status", "message", "code", "details"}
    /\ body.status = "error"
    /\ body.code = http

\* C15: every response that is not a 200 carries the error envelope.
C15_FailuresUseErrorEnvelope ==
    \A r \in Slots :
        Answered(r) /\ req[r].http # 200 => IsErrorEnvelope(req[r].body, req[r].http)

\* what the engine returns on the bytes the request itself has uploaded
OwnOutput(r) ==
    IF req[r].route = "/pdf-to-html" THEN <<>>
    ELSE ConcatPages(Pages(req[r].upload.content))

\* C16: the payload of a 200 response is the engine's output on the bytes
\* that same request has uploaded, under every interleaving.
C16_PayloadFromOwnUpload ==
    \A r \in Slots :
        Answered(r) /\ req[r].http = 200 => req[r].body.data.payload = OwnOutput(r)

\* C17: a validated request on whose upload the engine succeeds when the
\* request runs alone, and whose save does not fail, is answered 200 under
\* every interleaving with other requests.
C17_StatusIndependentOfOthers ==
    \A r \in Slots :
        Answered(r) /\ Validated(r) /\ SucceedsAlone(r) /\ req[r].failed # "save"
        => req[r].http = 200

\* how far a request is
Rank(pc) ==
    CASE pc = "idle" -> 0
      [] pc = "save" -> 1
      [] pc = "write" -> 2
      [] pc = "extract" -> 3
      [] pc = "remove" -> 4
      [] OTHER -> 5

\* the next step of the request in slot r, after its arrival
Step(r) == SaveOpen(r) \/ SaveFails(r) \/ SaveWrite(r) \/ Extract(r) \/ Remove(r)

\* C18: a request in flight can always take its next step, whatever the
\* other requests do, and each of its steps takes it further, so that it
\* answers after at most four steps; a slot has a response exactly when its
\* request has answered, and the response stays as it is until the slot
\* receives another request; a request that passed the limiter, the bearer
\* check and the checks of the upload is answered 200, 400 or 500.
C18_EveryRequestAnswersOnce ==
    /\ [](\A r \in Slots :
              /\ InFlight(r) => ENABLED Step(r)
              /\ Answered(r) <=> req[r].http # 0
              /\ Answered(r) /\ Validated(r) => req[r].http \in {200, 400, 500})
    /\ [][\A r \in Slots :
              /\ InFlight(r) /\ req'[r] # req[r] => Rank(req'[r].pc) > Rank(req[r].pc)
              /\ Answered(r) /\ req'[r] # req[r] => Arrives(r)]_vars

\* C18's case: a request finds its file removed by another request, which
\* has been answered 200, and is answered 500.
C18_Witness ==
    \E r1, r2 \in Slots :
        /\ Answered(r1) /\ Validated(r1) /\ req[r1].failed = "remove" /\ req[r1].http = 500
        /\ Answered(r2) /\ Validated(r2) /\ req[r2].http = 200
        /\ req[r1].filepath = req[r2].filepath

====
